---- MODULE Spec2Model ----
(***************************************************************************)
(* Model of Calibre_Plugins/ineptepub_plugin/ade_key.py: retrieval of the  *)
(* Adobe ADEPT user key.                                                   *)
(*                                                                         *)
(* Spec        the Windows retrieve_key(), one action per statement group, *)
(*             over a registry drawn in Init.                              *)
(* SpecProbe   the NativeFunction objects behind cpuid0 / cpuid1: module   *)
(*             load, probe calls made by retrieve_key, destruction.        *)
(* SpecDepad   the last statement of the Windows retrieve_key as a pure    *)
(*             function of the decrypted buffer.                           *)
(* SpecEntropy lines 198-203: the identity collection and struct.pack.     *)
(* SpecDoc     the non-Windows retrieve_key().                             *)
(*                                                                         *)
(* The registry is that of the store's layout: every node carries a type   *)
(* tag (its default value), every leaf a 'value', the Device entry a 'key'.*)
(***************************************************************************)
EXTENDS Integers, Sequences, FiniteSets, TLC

VARIABLES
  aes,         \* _aes is not None (set when the module is imported)
  deviceKey,   \* HKCU\Software\Adobe\Adept\Device exists
  activation,  \* HKCU\Software\Adobe\Adept\Activation: whether it exists, its children
  pc,          \* position in retrieve_key
  i, j,        \* the loop indices of lines 216 and 224
  plkparent,   \* name of the depth-1 node currently open, or NoName
  userkey,     \* None or the value read at line 232
  keykey,      \* None or the unwrapped key of line 210
  result,      \* None, a returned key or a raised error
  log,         \* history: the external steps made and their outcome
  opens,       \* history: the OpenKey calls of the walk and their outcome
  probe,       \* the executable buffers and the NativeFunction objects
  depad,       \* a decrypted buffer and what line 240 makes of it
  ent,         \* the identity values and the entropy buffer packed from them
  mac          \* the non-Windows retrieve_key and the files it reads

mainVars == <<aes, deviceKey, activation, pc, i, j, plkparent, userkey, keykey,
              result, log, opens>>

vars == <<mainVars, probe, depad, ent, mac>>

----------------------------------------------------------------------------
(* Bounds of the model.                                                    *)

RootWidth == 2      \* slots of the root that may hold a node
LeafWidth == 2      \* slots of a node that may hold a leaf
MaxItems == 3       \* nodes and leaves a store holds in its slots
MaxAddr == 3        \* addresses VirtualAlloc may hand out
MaxCalls == 2       \* retrieve_key calls made after the import
MaxBlocks == 3      \* 16-byte blocks of a decrypted buffer
MaxNameLen == 33    \* characters of a user name
MaxElems == 2       \* elements under the root of an activation document

----------------------------------------------------------------------------
(* Values.                                                                 *)

\* Python's None where a byte string or a key may stand, and a registry path
\* that does not open.
None == << >>
NoKey == [exists |-> FALSE, kids |-> << >>]
NoName == << >>
NoResult == [kind |-> "none"]

\* Mutant: a loop limit one too large.
OuterLimitOff == 16 + 1

\* The two loop limits xrange(0, 16) of lines 216 and 224.
OuterLimit == 16
InnerLimit == 16

\* "%04d" % (k,): the decimal digits of k, zero-padded to width four.
Fmt04d(k) ==
  <<(k \div 1000) % 10, (k \div 100) % 10, (k \div 10) % 10, k % 10>>

\* raise ADEPTError(msg)
ADEPTError(msg) == [kind |-> "ADEPTError", msg |-> msg]

ErrNoCrypto == ADEPTError("Couldn't load PyCrypto")
ErrNotActivated == ADEPTError("Adobe Digital Editions not activated")
ErrUnwrap == ADEPTError("Failed to decrypt user key key (sic)")
ErrNoActivation == ADEPTError("Could not locate ADE activation")
ErrNoLicenseKey == ADEPTError("Could not locate privateLicenseKey")

----------------------------------------------------------------------------
(* The registries the walk is run on.  A store maps child names to nodes   *)
(* [tag, kids]; kids maps child names to leaves [tag, value].  A store is  *)
(* a run of filler nodes (tag "other") at indices 0..rp-1 followed by      *)
(* RootWidth slots, each absent or a node; the children of a slot node are *)
(* a run of filler leaves at 0..lp-1 followed by LeafWidth slots.          *)

NodeTags == {"credentials", "other"}
LeafTags == {"privateLicenseKey", "other"}
Absent == "absent"

RootSlots == 0 .. (RootWidth - 1)
LeafSlots == 0 .. (LeafWidth - 1)

NodeOpt ==
  {[tag |-> Absent, leaves |-> [l \in LeafSlots |-> Absent]]}
    \cup [tag : NodeTags, leaves : [LeafSlots -> LeafTags \cup {Absent}]]

Items(p) ==
  Cardinality({s \in RootSlots : p[s].tag # Absent})
    + Cardinality({sl \in RootSlots \X LeafSlots :
                     p[sl[1]].tag # Absent /\ p[sl[1]].leaves[sl[2]] # Absent})

Patterns == {p \in [RootSlots -> NodeOpt] : Items(p) <= MaxItems}

\* No filler, fifteen filler nodes, or fifteen filler leaves in every node.
Pads == {<<0, 0>>, <<15, 0>>, <<0, 15>>}

\* The name the DRM client gives child number k: four decimal digits.
KeyName(k) == [d \in 1 .. 4 |-> (k \div (10 ^ (4 - d))) % 10]

\* The number a four-digit name stands for.
Val(n) == n[1] * 1000 + n[2] * 100 + n[3] * 10 + n[4]

Keyed(idx, f(_)) ==
  [n \in {KeyName(k) : k \in idx} |-> f(CHOOSE k \in idx : KeyName(k) = n)]

Kids(a, leaves, lp) ==
  LET idx == (0 .. (lp - 1)) \cup {lp + l : l \in {l \in LeafSlots : leaves[l] # Absent}}
      leaf(b) == [tag   |-> IF b < lp THEN "other" ELSE leaves[b - lp],
                  value |-> <<a, b>>]
  IN Keyed(idx, leaf)

BuildStore(p, rp, lp) ==
  LET idx == (0 .. (rp - 1)) \cup {rp + s : s \in {s \in RootSlots : p[s].tag # Absent}}
      node(a) == IF a < rp
                 THEN [tag |-> "other", kids |-> << >>]
                 ELSE [tag |-> p[a - rp].tag, kids |-> Kids(a, p[a - rp].leaves, lp)]
  IN Keyed(idx, node)

Stores == {BuildStore(p, pad[1], pad[2]) : p \in Patterns, pad \in Pads}

----------------------------------------------------------------------------
(* winreg                                                                  *)

\* winreg.OpenKey(parent, name) succeeds iff parent has a child of that name.
OpenKey(container, name) == name \in DOMAIN container

\* winreg.QueryValueEx(node, None)[0]: the node's default value, its type tag.
QueryTag(node) == node.tag

\* winreg.QueryValueEx(leaf, 'value')[0]
QueryValue(leaf) == leaf.value

Step(name, ok) == [step |-> name, ok |-> ok]
Opened(path, ok) == [path |-> path, ok |-> ok]

----------------------------------------------------------------------------
(* The Windows retrieve_key(), lines 195-241.                              *)

MainInit ==
  /\ aes \in BOOLEAN
  /\ deviceKey \in BOOLEAN
  /\ activation \in {NoKey} \cup {[exists |-> TRUE, kids |-> s] : s \in Stores}
  /\ pc = "aes"
  /\ i = 0
  /\ j = 0
  /\ plkparent = NoName
  /\ userkey = None
  /\ keykey = None
  /\ result = NoResult
  /\ log = << >>
  /\ opens = << >>

Raise(err) ==
  /\ result' = err
  /\ pc' = "done"

\* lines 196-197
CheckAes ==
  /\ pc = "aes"
  /\ log' = Append(log, Step("aes_check", aes))
  /\ IF aes THEN pc' = "sysdir" /\ UNCHANGED result ELSE Raise(ErrNoCrypto)
  /\ UNCHANGED <<aes, deviceKey, activation, i, j, plkparent, userkey, keykey, opens>>

\* A statement that calls an identity source and cannot raise.
Collect(at, name, next) ==
  /\ pc = at
  /\ log' = Append(log, Step(name, TRUE))
  /\ pc' = next
  /\ UNCHANGED <<aes, deviceKey, activation, i, j, plkparent, userkey, keykey,
                 result, opens>>

\* line 198
GetSystemDirectory == Collect("sysdir", "GetSystemDirectory", "serial")
\* line 199
GetVolumeSerialNumber == Collect("serial", "GetVolumeSerialNumber", "cpuid0")
\* line 200
Cpuid0 == Collect("cpuid0", "cpuid0", "cpuid1")
\* line 201
Cpuid1 == Collect("cpuid1", "cpuid1", "user")
\* line 202
GetUserName == Collect("user", "GetUserName", "pack")
\* line 203
PackEntropy == Collect("pack", "pack", "device")

\* Mutant: the failed open of the Device entry is noted but not raised.
OpenDeviceSwallowed ==
  /\ pc = "device"
  /\ log' = Append(log, Step("OpenKey Device", deviceKey))
  /\ pc' = "devicekey"
  /\ UNCHANGED <<aes, deviceKey, activation, i, j, plkparent, userkey, keykey,
                 result, opens>>

\* lines 204-208
OpenDevice ==
  /\ pc = "device"
  /\ log' = Append(log, Step("OpenKey Device", deviceKey))
  /\ IF deviceKey THEN pc' = "devicekey" /\ UNCHANGED result
                  ELSE Raise(ErrNotActivated)
  /\ UNCHANGED <<aes, deviceKey, activation, i, j, plkparent, userkey, keykey, opens>>

\* line 209
QueryDevice == Collect("devicekey", "QueryValueEx key", "unwrap")

\* line 210 and CryptUnprotectData, lines 182-191: the service accepts the
\* blob and the entropy or it does not.
Unwrap ==
  /\ pc = "unwrap"
  /\ \E ok \in BOOLEAN :
       /\ log' = Append(log, Step("CryptUnprotectData", ok))
       /\ IF ok
          THEN /\ keykey' = <<"keykey">>
               /\ pc' = "activation"
               /\ UNCHANGED result
          ELSE /\ Raise(ErrUnwrap)
               /\ UNCHANGED keykey
  /\ UNCHANGED <<aes, deviceKey, activation, i, j, plkparent, userkey, opens>>

\* Mutant: the missing Activation root raises the error of the missing Device.
OpenActivationAsDevice ==
  /\ pc = "activation"
  /\ log' = Append(log, Step("OpenKey Activation", activation.exists))
  /\ userkey' = None
  /\ IF activation.exists
     THEN pc' = "outer" /\ i' = 0 /\ UNCHANGED result
     ELSE Raise(ErrNotActivated) /\ UNCHANGED i
  /\ UNCHANGED <<aes, deviceKey, activation, j, plkparent, keykey, opens>>

\* lines 211-215
OpenActivation ==
  /\ pc = "activation"
  /\ log' = Append(log, Step("OpenKey Activation", activation.exists))
  /\ userkey' = None
  /\ IF activation.exists
     THEN pc' = "outer" /\ i' = 0 /\ UNCHANGED result
     ELSE Raise(ErrNoActivation) /\ UNCHANGED i
  /\ UNCHANGED <<aes, deviceKey, activation, j, plkparent, keykey, opens>>

\* line 216: xrange(0, 16) is exhausted
OuterExhausted ==
  /\ pc = "outer"
  /\ i >= OuterLimit
  /\ pc' = "check"
  /\ UNCHANGED <<aes, deviceKey, activation, i, j, plkparent, userkey, keykey,
                 result, log, opens>>

\* lines 217-223: open child i; stop at the first that does not open, skip
\* one whose tag is not 'credentials', else start the inner loop.
OuterStep ==
  /\ pc = "outer"
  /\ i < OuterLimit
  /\ LET name == Fmt04d(i)
         ok == OpenKey(activation.kids, name)
     IN /\ opens' = Append(opens, Opened(<<name>>, ok))
        /\ IF ~ok
           THEN pc' = "check" /\ UNCHANGED <<i, j, plkparent>>
           ELSE IF QueryTag(activation.kids[name]) # "credentials"
                THEN pc' = "outer" /\ i' = i + 1 /\ plkparent' = name
                     /\ UNCHANGED j
                ELSE pc' = "inner" /\ j' = 0 /\ plkparent' = name
                     /\ UNCHANGED i
  /\ UNCHANGED <<aes, deviceKey, activation, userkey, keykey, result, log>>

\* line 224: xrange(0, 16) is exhausted
InnerExhausted ==
  /\ pc = "inner"
  /\ j >= InnerLimit
  /\ pc' = "after"
  /\ UNCHANGED <<aes, deviceKey, activation, i, j, plkparent, userkey, keykey,
                 result, log, opens>>

\* Mutant: the inner loop goes on after a value is read (no break at 233).
InnerStepNoBreak ==
  /\ pc = "inner"
  /\ j < InnerLimit
  /\ LET name == Fmt04d(j)
         kids == activation.kids[plkparent].kids
         ok == OpenKey(kids, name)
     IN /\ opens' = Append(opens, Opened(<<plkparent, name>>, ok))
        /\ IF ~ok
           THEN pc' = "after" /\ UNCHANGED <<j, userkey>>
           ELSE IF QueryTag(kids[name]) # "privateLicenseKey"
                THEN pc' = "inner" /\ j' = j + 1 /\ UNCHANGED userkey
                ELSE pc' = "inner" /\ j' = j + 1
                     /\ userkey' = QueryValue(kids[name])
  /\ UNCHANGED <<aes, deviceKey, activation, i, plkparent, keykey, result, log>>

\* lines 225-233: open child j of plkparent; stop at the first that does not
\* open, skip one whose tag is not 'privateLicenseKey', else read its value.
InnerStep ==
  /\ pc = "inner"
  /\ j < InnerLimit
  /\ LET name == Fmt04d(j)
         kids == activation.kids[plkparent].kids
         ok == OpenKey(kids, name)
     IN /\ opens' = Append(opens, Opened(<<plkparent, name>>, ok))
        /\ IF ~ok
           THEN pc' = "after" /\ UNCHANGED <<j, userkey>>
           ELSE IF QueryTag(kids[name]) # "privateLicenseKey"
                THEN pc' = "inner" /\ j' = j + 1 /\ UNCHANGED userkey
                ELSE pc' = "after" /\ userkey' = QueryValue(kids[name])
                     /\ UNCHANGED j
  /\ UNCHANGED <<aes, deviceKey, activation, i, plkparent, keykey, result, log>>

\* Mutant: the outer loop ends after the first 'credentials' node.
AfterInnerAlwaysBreak ==
  /\ pc = "after"
  /\ pc' = "check"
  /\ UNCHANGED <<aes, deviceKey, activation, i, j, plkparent, userkey, keykey,
                 result, log, opens>>

\* lines 234-235
AfterInner ==
  /\ pc = "after"
  /\ IF userkey # None
     THEN pc' = "check" /\ UNCHANGED i
     ELSE pc' = "outer" /\ i' = i + 1
  /\ UNCHANGED <<aes, deviceKey, activation, j, plkparent, userkey, keykey,
                 result, log, opens>>

\* Mutant: the test of line 236 is missing.
CheckFoundMissing ==
  /\ pc = "check"
  /\ log' = Append(log, Step("walk", userkey # None))
  /\ pc' = "decrypt"
  /\ UNCHANGED <<aes, deviceKey, activation, i, j, plkparent, userkey, keykey,
                 result, opens>>

\* lines 236-237
CheckFound ==
  /\ pc = "check"
  /\ log' = Append(log, Step("walk", userkey # None))
  /\ IF userkey = None
     THEN Raise(ErrNoLicenseKey)
     ELSE pc' = "decrypt" /\ UNCHANGED result
  /\ UNCHANGED <<aes, deviceKey, activation, i, j, plkparent, userkey, keykey, opens>>

\* lines 238-241: decode, decrypt with keykey, strip header and padding
Finalize ==
  /\ pc = "decrypt"
  /\ log' = Append(log, Step("decrypt", TRUE))
  /\ result' = [kind |-> "key", wrapped |-> userkey, kek |-> keykey]
  /\ pc' = "done"
  /\ UNCHANGED <<aes, deviceKey, activation, i, j, plkparent, userkey, keykey, opens>>

MainNext ==
  \/ CheckAes
  \/ GetSystemDirectory
  \/ GetVolumeSerialNumber
  \/ Cpuid0
  \/ Cpuid1
  \/ GetUserName
  \/ PackEntropy
  \/ OpenDevice
  \/ QueryDevice
  \/ Unwrap
  \/ OpenActivation
  \/ OuterExhausted
  \/ OuterStep
  \/ InnerExhausted
  \/ InnerStep
  \/ AfterInner
  \/ CheckFound
  \/ Finalize

----------------------------------------------------------------------------
(* The executable buffers: VirtualAlloc, VirtualFree and NativeFunction,   *)
(* lines 83-117, the two objects made when the module is imported, lines   *)
(* 161-170, and the probe calls of retrieve_key, lines 200-201.            *)

Null == 0
Addrs == 1 .. MaxAddr
Probes == {"cpuid0", "cpuid1"}

ProbeIdle ==
  [module |-> "idle", heap |-> {}, buf |-> [p \in Probes |-> Null],
   alive |-> {}, at |-> "idle", calls |-> 0, invoked |-> << >>,
   nalloc |-> 0, nfree |-> 0]

\* The import begins: no object is made yet.
ProbeInit == probe = [ProbeIdle EXCEPT !.module = "import cpuid0"]

\* VirtualAlloc(None, size): a free address, or NULL when none is granted.
VirtualAlloc(heap) == (Addrs \ heap) \cup {Null}

\* NativeFunction.__init__, lines 105-109, run at `stage` of the import for
\* probe p: the buffer is allocated and written; a NULL buffer makes memmove
\* raise, which ends the import.
NativeFunctionInit(p, stage, next) ==
  /\ probe.module = stage
  /\ \E a \in VirtualAlloc(probe.heap) :
       probe' = IF a = Null
                THEN [probe EXCEPT !.module = "failed",
                                   !.alive = @ \cup {p}]
                ELSE [probe EXCEPT !.module = next,
                                   !.heap = @ \cup {a},
                                   !.buf[p] = a,
                                   !.alive = @ \cup {p},
                                   !.nalloc = @ + 1]

\* lines 161-168: cpuid0 = cpuid0()
ImportCpuid0 == NativeFunctionInit("cpuid0", "import cpuid0", "import cpuid1")

\* line 170: cpuid1 = NativeFunction(c_uint, [], CPUID1_INSNS)
ImportCpuid1 == NativeFunctionInit("cpuid1", "import cpuid1", "loaded")

\* retrieve_key is called and reaches line 200.
CallBegin ==
  /\ probe.module = "loaded"
  /\ probe.at = "idle"
  /\ probe.calls < MaxCalls
  /\ probe' = [probe EXCEPT !.at = "cpuid0", !.calls = @ + 1]

\* Mutant: the call releases its buffer when it returns.
NativeCallScoped(p, next) ==
  /\ probe.at = p
  /\ probe' = [probe EXCEPT
                 !.invoked = Append(@, [probe |-> p, buf |-> probe.buf[p],
                                        call |-> probe.calls]),
                 !.heap = @ \ {probe.buf[p]},
                 !.buf[p] = Null,
                 !.nfree = @ + 1,
                 !.at = next]

\* NativeFunction.__call__, lines 111-112: the buffer of the object is run.
NativeCall(p, next) ==
  /\ probe.at = p
  /\ probe' = [probe EXCEPT
                 !.invoked = Append(@, [probe |-> p, buf |-> probe.buf[p],
                                        call |-> probe.calls]),
                 !.at = next]

\* line 200 and lines 164-166
Cpuid0Call == NativeCall("cpuid0", "cpuid1")

\* line 201
Cpuid1Call == NativeCall("cpuid1", "rest")

\* lines 202-241 touch no buffer; the call returns or raises.
CallEnd ==
  /\ probe.at = "rest"
  /\ probe' = [probe EXCEPT !.at = "idle"]

\* The interpreter exits, or the failed import is dropped: the objects are
\* destroyed one by one.
ModuleExit ==
  /\ probe.module = "loaded"
  /\ probe.at = "idle"
  /\ probe' = [probe EXCEPT !.module = "exiting"]

\* NativeFunction.__del__, lines 114-117.  At interpreter exit the global
\* VirtualFree may already be cleared, and then the call raises, which is
\* ignored, and the buffer is not released.
NativeFunctionDel(p) ==
  /\ probe.module \in {"exiting", "failed"}
  /\ p \in probe.alive
  /\ \E bound \in BOOLEAN :
       probe' = IF probe.buf[p] # Null /\ bound
                THEN [probe EXCEPT !.heap = @ \ {probe.buf[p]},
                                   !.buf[p] = Null,
                                   !.nfree = @ + 1,
                                   !.alive = @ \ {p}]
                ELSE [probe EXCEPT !.alive = @ \ {p}]

DelCpuid0 == NativeFunctionDel("cpuid0")
DelCpuid1 == NativeFunctionDel("cpuid1")

ProbeNext ==
  \/ ImportCpuid0
  \/ ImportCpuid1
  \/ CallBegin
  \/ Cpuid0Call
  \/ Cpuid1Call
  \/ CallEnd
  \/ ModuleExit
  \/ DelCpuid0
  \/ DelCpuid1

----------------------------------------------------------------------------
(* Byte strings are sequences of numbers 0..255.                           *)

\* Python's s[lo:hi]: a negative bound counts from the end, and both bounds
\* are clipped to the string.
SliceBound(k, n) ==
  IF k < 0 THEN (IF k + n < 0 THEN 0 ELSE k + n)
           ELSE (IF k > n THEN n ELSE k)

Slice(s, lo, hi) ==
  LET a == SliceBound(lo, Len(s))
      b == SliceBound(hi, Len(s))
  IN IF a < b THEN SubSeq(s, a + 1, b) ELSE << >>

\* s[lo:]
SliceFrom(s, lo) ==
  LET a == SliceBound(lo, Len(s))
  IN IF a < Len(s) THEN SubSeq(s, a + 1, Len(s)) ELSE << >>

----------------------------------------------------------------------------
(* Line 240: userkey = userkey[26:-ord(userkey[-1])], on the buffer that   *)
(* line 239 decrypted.                                                     *)

\* userkey[26:-ord(userkey[-1])] of a buffer that is not empty
Strip(D) == Slice(D, 26, 0 - D[Len(D)])

\* The decrypted buffers: whole 16-byte blocks of a running pattern, any
\* byte value in the last place.
Buffers ==
  {[k \in 1 .. (16 * blocks) |->
      IF k = 16 * blocks THEN last ELSE (k * step) % 256] :
     blocks \in 0 .. MaxBlocks, last \in 0 .. 255, step \in {1, 37}}

DepadInit == depad \in {[pc |-> "strip", D |-> D, out |-> << >>] : D \in Buffers}

\* line 240; userkey[-1] of an empty buffer raises IndexError
DepadStep ==
  /\ depad.pc = "strip"
  /\ depad' = IF depad.D = << >>
              THEN [depad EXCEPT !.pc = "IndexError"]
              ELSE [depad EXCEPT !.pc = "returned", !.out = Strip(depad.D)]

----------------------------------------------------------------------------
(* Lines 198-203: the identity values and the entropy buffer, with         *)
(* GetUserName, lines 69-75.                                               *)

\* A 32-bit unsigned value is the pair of its 16-bit halves, high half first.
\* struct.pack('>I', x): four bytes, most significant first
PackI(x) == <<x[1] \div 256, x[1] % 256, x[2] \div 256, x[2] % 256>>

\* struct.pack('<n>s', s): s cut to n bytes or filled with zero bytes
PackS(n, s) == [k \in 1 .. n |-> IF k <= Len(s) THEN s[k] ELSE 0]

\* Mutant: the first three bytes of the packed value are kept.
SignatureTop(feature) == SubSeq(PackI(feature), 1, 3)

\* line 201: struct.pack('>I', cpuid1())[1:]
Signature(feature) == SliceFrom(PackI(feature), 1)

\* unicode.encode('utf-16-le'): two bytes for each code unit, low byte first
Utf16le(units) ==
  [k \in 1 .. (2 * Len(units)) |->
     IF k % 2 = 1 THEN units[(k + 1) \div 2] % 256
                  ELSE units[k \div 2] \div 256]

\* s[::2]
EveryOther(s) == [k \in 1 .. ((Len(s) + 1) \div 2) |-> s[2 * k - 1]]

\* line 203: struct.pack('>I12s3s13s', serial, vendor, signature, user)
PackEntropyBuffer(serial, vendor, signature, user) ==
  PackI(serial) \o PackS(12, vendor) \o PackS(3, signature) \o PackS(13, user)

GenuineIntel == <<71, 101, 110, 117, 105, 110, 101, 73, 110, 116, 101, 108>>
AuthenticAMD == <<65, 117, 116, 104, 101, 110, 116, 105, 99, 65, 77, 68>>

\* The machines: a volume serial, the 12 bytes of cpuid 0, the eax of cpuid
\* 1, and a user name of UTF-16 code units (Latin, Latin-1, CJK).
Serials == {<<0, 0>>, <<0, 1>>, <<4660, 22136>>, <<65535, 65535>>}
Features == {<<0, 0>>, <<3, 1705>>, <<32771, 1>>, <<65535, 65280>>}
Names ==
  {[k \in 1 .. n |-> base + k] : n \in 0 .. MaxNameLen, base \in {64, 191, 19968}}

EntInit ==
  ent \in {[pc |-> "GetUserNameW", serial |-> s, vendor |-> v, feature |-> f,
            name |-> nm, buffer |-> 32, user |-> << >>, entropy |-> << >>] :
             s \in Serials, v \in {GenuineIntel, AuthenticAMD},
             f \in Features, nm \in Names}

\* lines 70-74: GetUserNameW fills a buffer that holds the name and its
\* terminator; one that does not is replaced by one twice as long.
EntGetUserNameW ==
  /\ ent.pc = "GetUserNameW"
  /\ ent' = IF Len(ent.name) + 1 <= ent.buffer
            THEN [ent EXCEPT !.pc = "encode"]
            ELSE [ent EXCEPT !.buffer = 2 * @]

\* line 75: return buffer.value.encode('utf-16-le')[::2]
EntEncode ==
  /\ ent.pc = "encode"
  /\ ent' = [ent EXCEPT !.pc = "pack", !.user = EveryOther(Utf16le(ent.name))]

\* lines 199-201 and 203
EntPack ==
  /\ ent.pc = "pack"
  /\ ent' = [ent EXCEPT
               !.pc = "packed",
               !.entropy = PackEntropyBuffer(ent.serial, ent.vendor,
                                             Signature(ent.feature), ent.user)]

EntNext ==
  \/ EntGetUserNameW
  \/ EntEncode
  \/ EntPack

----------------------------------------------------------------------------
(* The non-Windows retrieve_key, lines 255-283.                            *)

\* A base64 text is a sequence of six-bit digits, with 64 for '='.
\* What the DRM client writes: three bytes in four digits, padded.
B64Encode(bytes) ==
  LET n == Len(bytes)
      at(k) == IF k <= n THEN bytes[k] ELSE 0
      digit(m) ==
        LET q == (m - 1) \div 4
            r == (m - 1) % 4
            b1 == at(3 * q + 1)
            b2 == at(3 * q + 2)
            b3 == at(3 * q + 3)
        IN CASE r = 0 -> b1 \div 4
             [] r = 1 -> (b1 % 4) * 16 + b2 \div 16
             [] r = 2 -> IF 3 * q + 2 > n THEN 64 ELSE (b2 % 16) * 4 + b3 \div 64
             [] r = 3 -> IF 3 * q + 3 > n THEN 64 ELSE b3 % 64
  IN [m \in 1 .. (4 * ((n + 2) \div 3)) |-> digit(m)]

\* str.decode('base64') of a padded text: four digits give three bytes, the
\* last group one byte less for each '='.
B64Decode(text) ==
  LET len == Len(text)
      pads == Cardinality({m \in 1 .. len : text[m] = 64})
      byte(k) ==
        LET q == (k - 1) \div 3
            r == (k - 1) % 3
            c1 == text[4 * q + 1]
            c2 == text[4 * q + 2]
            c3 == text[4 * q + 3]
            c4 == text[4 * q + 4]
        IN CASE r = 0 -> c1 * 4 + c2 \div 16
             [] r = 1 -> (c2 % 16) * 16 + c3 \div 4
             [] r = 2 -> (c3 % 4) * 64 + c4
  IN [k \in 1 .. (3 * (len \div 4) - pads) |-> byte(k)]

Domains == <<"user", "local">>

\* The key material the DRM client stored in element e of the file of
\* domain d: a 26-byte header and a body, n bytes in all.
Payload(d, e, n) == [k \in 1 .. n |-> (k * 29 + d * 101 + e * 53) % 256]

\* An element under the root: its tag, and whether it has a child element
\* privateLicenseKey, without text or with text.
ElemOpt == [tag : {"credentials", "other"}, key : {"absent", "empty", "text"}]

DocShapes == UNION {[1 .. n -> ElemOpt] : n \in 0 .. MaxElems}

PayloadLens == {0, 25, 26, 27, 40}

\* The text of the privateLicenseKey child of element e.
KeyText(shape, d, e, n) ==
  IF shape[e].key = "text" THEN B64Encode(Payload(d, e, n)) ELSE << >>

MacInit ==
  mac \in {[pc |-> "find", domain |-> 1, actpath |-> 0,
            folder |-> fo, isfile |-> fi, wellformed |-> wf,
            shape |-> sh, size |-> n, result |-> NoResult] :
             fo \in [1 .. 2 -> BOOLEAN], fi \in [1 .. 2 -> BOOLEAN],
             wf \in BOOLEAN, sh \in DocShapes, n \in PayloadLens}

\* find_app_support_file, lines 264-270: one domain is tried
MacTryDomain ==
  /\ mac.pc = "find"
  /\ mac.domain <= Len(Domains)
  /\ mac' = IF mac.folder[mac.domain] /\ mac.isfile[mac.domain]
            THEN [mac EXCEPT !.pc = "parse", !.actpath = mac.domain]
            ELSE [mac EXCEPT !.domain = @ + 1]

\* line 271 and lines 275-276
MacNoFile ==
  /\ mac.pc = "find"
  /\ mac.domain > Len(Domains)
  /\ mac' = [mac EXCEPT !.pc = "done", !.result = ErrNoActivation]

\* line 277: etree.parse raises on a file that is not well-formed
MacParse ==
  /\ mac.pc = "parse"
  /\ mac' = IF mac.wellformed
            THEN [mac EXCEPT !.pc = "findtext"]
            ELSE [mac EXCEPT !.pc = "done", !.result = [kind |-> "ExpatError"]]

\* tree.findtext('//credentials/privateLicenseKey'): the elements it matches
Matches(shape) ==
  {e \in DOMAIN shape : shape[e].tag = "credentials" /\ shape[e].key # "absent"}

\* lines 278-283: findtext gives the text of the first match, or None, and
\* None has no decode
MacFindText ==
  /\ mac.pc = "findtext"
  /\ mac' =
       IF Matches(mac.shape) = {}
       THEN [mac EXCEPT !.pc = "done", !.result = [kind |-> "AttributeError"]]
       ELSE LET e == CHOOSE e \in Matches(mac.shape) :
                       \A f \in Matches(mac.shape) : e <= f
                userkey1 == B64Decode(KeyText(mac.shape, mac.actpath, e, mac.size))
            IN [mac EXCEPT !.pc = "done",
                           !.result = [kind |-> "key", key |-> SliceFrom(userkey1, 26)]]

MacNext ==
  \/ MacTryDomain
  \/ MacNoFile
  \/ MacParse
  \/ MacFindText

----------------------------------------------------------------------------
(* The specifications.  Each runs one part; the other parts stay idle.     *)

MainIdle ==
  /\ aes = TRUE
  /\ deviceKey = TRUE
  /\ activation = NoKey
  /\ pc = "idle"
  /\ i = 0
  /\ j = 0
  /\ plkparent = NoName
  /\ userkey = None
  /\ keykey = None
  /\ result = NoResult
  /\ log = << >>
  /\ opens = << >>

DepadIdle == [pc |-> "idle"]
EntIdle == [pc |-> "idle"]
MacIdle == [pc |-> "idle"]

Init == MainInit /\ probe = ProbeIdle /\ depad = DepadIdle /\ ent = EntIdle /\ mac = MacIdle
Next == MainNext /\ UNCHANGED <<probe, depad, ent, mac>>
Spec == Init /\ [][Next]_vars

InitProbe == MainIdle /\ ProbeInit /\ depad = DepadIdle /\ ent = EntIdle /\ mac = MacIdle
NextProbe == ProbeNext /\ UNCHANGED <<mainVars, depad, ent, mac>>
SpecProbe == InitProbe /\ [][NextProbe]_vars

InitDepad == MainIdle /\ probe = ProbeIdle /\ DepadInit /\ ent = EntIdle /\ mac = MacIdle
NextDepad == DepadStep /\ UNCHANGED <<mainVars, probe, ent, mac>>
SpecDepad == InitDepad /\ [][NextDepad]_vars

InitEntropy == MainIdle /\ probe = ProbeIdle /\ depad = DepadIdle /\ EntInit /\ mac = MacIdle
NextEntropy == EntNext /\ UNCHANGED <<mainVars, probe, depad, mac>>
SpecEntropy == InitEntropy /\ [][NextEntropy]_vars

InitDoc == MainIdle /\ probe = ProbeIdle /\ depad = DepadIdle /\ ent = EntIdle /\ MacInit
NextDoc == MacNext /\ UNCHANGED <<mainVars, probe, depad, ent>>
SpecDoc == InitDoc /\ [][NextDoc]_vars

----------------------------------------------------------------------------
(* What the claims speak of, read off the registry and the two histories.  *)

Root == activation.kids

Range(seq) == {seq[k] : k \in DOMAIN seq}

\* The Activation root was opened by this call.
RootOpened == Step("OpenKey Activation", TRUE) \in Range(log)

\* The walk is over: line 236 is reached or passed.
WalkOver == RootOpened /\ pc \in {"check", "decrypt", "done"}

\* Every leaf tagged 'privateLicenseKey' under a node tagged 'credentials'.
Qualifying ==
  {ab \in UNION {{<<a, b>> : b \in DOMAIN Root[a].kids} : a \in DOMAIN Root} :
     /\ Root[ab[1]].tag = "credentials"
     /\ Root[ab[1]].kids[ab[2]].tag = "privateLicenseKey"}

\* Child n of a container is met by counting 0, 1, 2, ... while children
\* exist: its index is below 16 and every lower index names a child.
Met(container, n) ==
  /\ n \in DOMAIN container
  /\ Val(n) < 16
  /\ \A k \in 0 .. (Val(n) - 1) : KeyName(k) \in DOMAIN container

Reachable == {ab \in Qualifying : Met(Root, ab[1]) /\ Met(Root[ab[1]].kids, ab[2])}

\* Index order: depth-1 index ascending, then depth-2 index ascending.
Before(x, y) ==
  \/ Val(x[1]) < Val(y[1])
  \/ Val(x[1]) = Val(y[1]) /\ Val(x[2]) <= Val(y[2])

FirstOf(S) == CHOOSE x \in S : \A y \in S : Before(x, y)

ValueAt(ab) == Root[ab[1]].kids[ab[2]].value

\* The opens made at depth 1, and those made below node a, in order.
Depth1 == LET t(o) == Len(o.path) = 1 IN SelectSeq(opens, t)
Depth2(a) == LET t(o) == Len(o.path) = 2 /\ o.path[1] = a IN SelectSeq(opens, t)

\* The qualifying leaves the walk has opened.
ReadLeaves ==
  {ab \in Qualifying : Opened(ab, TRUE) \in Range(opens)}

----------------------------------------------------------------------------
(* C1.  As claimed: whenever the root opens and the store holds a leaf     *)
(* tagged 'privateLicenseKey' under a node tagged 'credentials', the walk  *)
(* yields the value of the first such leaf in index order, and no open     *)
(* follows the one of that leaf.                                           *)
C1_AnyQualifyingLeafIsReturned ==
  /\ (WalkOver /\ Qualifying # {}) => userkey = ValueAt(FirstOf(Qualifying))
  /\ (pc = "done" /\ RootOpened /\ Qualifying # {}) =>
       /\ result.kind = "key"
       /\ result.wrapped = ValueAt(FirstOf(Qualifying))
  /\ userkey # None =>
       /\ opens # << >>
       /\ opens[Len(opens)] = Opened(FirstOf(Qualifying), TRUE)

(* C1, amended: the same of the qualifying leaves the enumeration can meet *)
(* (leaf and parent at an index below 16 with every lower-indexed sibling  *)
(* present): the value read and returned is that of the first of them in   *)
(* index order, and the open of that leaf is the last open made.           *)
C1_FirstReachableLeafIsReturned ==
  /\ (WalkOver /\ Reachable # {}) => userkey = ValueAt(FirstOf(Reachable))
  /\ (pc = "done" /\ RootOpened /\ Reachable # {}) =>
       /\ result.kind = "key"
       /\ result.wrapped = ValueAt(FirstOf(Reachable))
  /\ userkey # None =>
       /\ opens # << >>
       /\ opens[Len(opens)] = Opened(FirstOf(Reachable), TRUE)

\* A key was returned from a store that offers at least two leaves to choose
\* from, after three opens or more.
C1_Witness ==
  /\ pc = "done"
  /\ result.kind = "key"
  /\ Cardinality(Reachable) >= 2
  /\ Len(opens) >= 3

----------------------------------------------------------------------------
(* C2.  Whenever the root opened and the walk is over without a leaf       *)
(* tagged 'privateLicenseKey' under a node tagged 'credentials' having     *)
(* been opened, retrieve_key raises ADEPTError('Could not locate           *)
(* privateLicenseKey') and returns no key; a key that is returned is the   *)
(* value of such a leaf, never that of a node with another tag.            *)
C2_NotFoundWhenNoLeafRead ==
  /\ (WalkOver /\ ReadLeaves = {}) => userkey = None
  /\ (pc = "done" /\ RootOpened /\ ReadLeaves = {}) => result = ErrNoLicenseKey
  /\ userkey # None => \E ab \in ReadLeaves : userkey = ValueAt(ab)
  /\ result.kind = "key" => \E ab \in ReadLeaves : result.wrapped = ValueAt(ab)

\* The not-found error was raised after the walk opened a leaf with another
\* tag under a 'credentials' node.
C2_Witness ==
  /\ pc = "done"
  /\ result = ErrNoLicenseKey
  /\ \E o \in Range(opens) :
       /\ o.ok
       /\ Len(o.path) = 2
       /\ Root[o.path[1]].tag = "credentials"
       /\ Root[o.path[1]].kids[o.path[2]].tag # "privateLicenseKey"

----------------------------------------------------------------------------
(* The call ended at an entry that did not open.                           *)
ActivationFailed ==
  log # << >> /\ log[Len(log)] = Step("OpenKey Activation", FALSE)

DeviceFailed ==
  log # << >> /\ log[Len(log)] = Step("OpenKey Device", FALSE)

(* C6, as claimed: when the Activation root does not open, retrieve_key    *)
(* raises the error, kind and message, it raises when the Device entry     *)
(* does not exist.                                                         *)
C6_ActivationErrorIsDeviceError ==
  ActivationFailed => result = ADEPTError("Adobe Digital Editions not activated")

(* C6, amended: when the Activation root does not open, retrieve_key       *)
(* raises ADEPTError('Could not locate ADE activation'): the error kind of *)
(* the missing Device entry, whose message is 'Adobe Digital Editions not  *)
(* activated', with a message of its own, and not the not-found error of   *)
(* the walk.                                                               *)
C6_ActivationErrorHasOwnMessage ==
  /\ ActivationFailed =>
       /\ pc = "done"
       /\ result.kind = "ADEPTError"
       /\ result.msg = "Could not locate ADE activation"
       /\ result.msg # "Could not locate privateLicenseKey"
       /\ opens = << >>
  /\ DeviceFailed =>
       /\ pc = "done"
       /\ result.kind = "ADEPTError"
       /\ result.msg = "Adobe Digital Editions not activated"

\* The call ended at the Activation root, which did not open.
C6_Witness ==
  /\ pc = "done"
  /\ ActivationFailed
  /\ ~activation.exists
  /\ result.kind = "ADEPTError"

----------------------------------------------------------------------------
(* The 'credentials' nodes the walk has opened, and the first of them.     *)
OpenedCredentials ==
  {a \in DOMAIN Root : Opened(<<a>>, TRUE) \in Range(opens)
                         /\ Root[a].tag = "credentials"}

FirstCredentials ==
  CHOOSE a \in OpenedCredentials : \A b \in OpenedCredentials : Val(a) <= Val(b)

(* C7, as claimed: only the first 'credentials' node has its children      *)
(* enumerated; when it holds no leaf tagged 'privateLicenseKey' the walk   *)
(* yields no key.                                                          *)
C7_OnlyFirstCredentialsSearched ==
  /\ \A o \in Range(opens) : Len(o.path) = 2 => o.path[1] = FirstCredentials
  /\ (WalkOver /\ OpenedCredentials # {}
        /\ \A ab \in Qualifying : ab[1] # FirstCredentials) => userkey = None

(* C7, amended: every 'credentials' node the enumeration opens has its     *)
(* children enumerated, and only such nodes; a 'credentials' node that     *)
(* yields no leaf tagged 'privateLicenseKey' does not end the walk: the    *)
(* later 'credentials' nodes are searched in ascending index order, and    *)
(* the walk yields no key only when none of the 'credentials' nodes it can *)
(* meet holds a leaf it can meet.                                          *)
C7_EveryCredentialsNodeSearched ==
  /\ \A a \in OpenedCredentials :
       \/ pc = "inner" /\ plkparent = a /\ j = 0
       \/ Depth2(a) # << >>
  /\ \A o \in Range(opens) : Len(o.path) = 2 => o.path[1] \in OpenedCredentials
  /\ (WalkOver /\ userkey = None) =>
       /\ Reachable = {}
       /\ \A a \in DOMAIN Root :
            (Met(Root, a) /\ Root[a].tag = "credentials") => a \in OpenedCredentials

\* The key came from the second 'credentials' node searched.
C7_Witness ==
  /\ pc = "done"
  /\ result.kind = "key"
  /\ Cardinality(OpenedCredentials) = 2
  /\ \A a \in OpenedCredentials : Depth2(a) # << >>

----------------------------------------------------------------------------
(* The opens of one level name '0000', '0001', ... in this order, are 16   *)
(* at most, and only the last of them may have failed.                     *)
Ascending(level, prefix) ==
  /\ Len(level) <= 16
  /\ \A k \in DOMAIN level :
       /\ level[k].path = Append(prefix, KeyName(k - 1))
       /\ ~level[k].ok => k = Len(level)
  /\ Len(level) >= 1 => level[1].path = Append(prefix, <<0, 0, 0, 0>>)
  /\ Len(level) >= 2 => level[2].path = Append(prefix, <<0, 0, 0, 1>>)

(* C8.  At both depths the children are opened by the names '0000',        *)
(* '0001', ... in ascending order, none with an index of 16 or more; an    *)
(* open that fails is the last at its level, so only children met by       *)
(* counting from 0 are opened; on an empty root the one open of '0000' is  *)
(* made and the not-found error raised.                                    *)
C8_EnumerationBounds ==
  /\ Ascending(Depth1, << >>)
  /\ \A a \in DOMAIN Root : Ascending(Depth2(a), <<a>>)
  /\ \A k \in DOMAIN opens :
       /\ Len(opens[k].path) \in {1, 2}
       /\ Val(opens[k].path[Len(opens[k].path)]) < 16
       /\ (Len(opens[k].path) = 1 /\ ~opens[k].ok) => k = Len(opens)
       /\ (Len(opens[k].path) = 1 /\ opens[k].ok) => Met(Root, opens[k].path[1])
       /\ (Len(opens[k].path) = 2 /\ opens[k].ok) =>
            Met(Root[opens[k].path[1]].kids, opens[k].path[2])
  /\ (WalkOver /\ DOMAIN Root = {}) =>
       opens = <<Opened(<<(<<0, 0, 0, 0>>)>>, FALSE)>>
  /\ (pc = "done" /\ RootOpened /\ DOMAIN Root = {}) => result = ErrNoLicenseKey

\* Sixteen children of the root were opened and a seventeenth exists.
C8_Witness ==
  /\ pc = "done"
  /\ Len(Depth1) = 16
  /\ Depth1[16].ok
  /\ KeyName(16) \in DOMAIN Root

----------------------------------------------------------------------------
(* The place of a logged step among the seven steps of a call, and the     *)
(* message of the error a failed step raises.                              *)
Rank(step) ==
  CASE step = "aes_check" -> 1
    [] step \in {"GetSystemDirectory", "GetVolumeSerialNumber", "cpuid0",
                 "cpuid1", "GetUserName", "pack"} -> 2
    [] step \in {"OpenKey Device", "QueryValueEx key"} -> 3
    [] step = "CryptUnprotectData" -> 4
    [] step = "OpenKey Activation" -> 5
    [] step = "walk" -> 6
    [] step = "decrypt" -> 7

ErrorOf(step) ==
  CASE step = "aes_check" -> "Couldn't load PyCrypto"
    [] step = "OpenKey Device" -> "Adobe Digital Editions not activated"
    [] step = "CryptUnprotectData" -> "Failed to decrypt user key key (sic)"
    [] step = "OpenKey Activation" -> "Could not locate ADE activation"
    [] step = "walk" -> "Could not locate privateLicenseKey"
    [] OTHER -> "no error"

(* C9.  The steps of a call run in the order cipher-library check,         *)
(* identity collection, Device entry, secret unwrap, Activation root, tree *)
(* walk, decrypt-and-depad; a step that fails is the last step made and    *)
(* its error is the one raised; no step is made twice; the unwrap is made  *)
(* at most once and before the Activation root is opened.                  *)
C9_StepOrderAndTerminalErrors ==
  /\ log # << >> => log[1].step = "aes_check"
  /\ \A k \in DOMAIN log :
       /\ k > 1 => /\ Rank(log[k].step) >= Rank(log[k - 1].step)
                   /\ Rank(log[k].step) <= Rank(log[k - 1].step) + 1
       /\ \A m \in DOMAIN log : log[m].step = log[k].step => m = k
       /\ ~log[k].ok =>
            /\ k = Len(log)
            /\ pc = "done"
            /\ result = ADEPTError(ErrorOf(log[k].step))
       /\ log[k].step = "OpenKey Activation" =>
            \E m \in 1 .. (k - 1) : log[m] = Step("CryptUnprotectData", TRUE)
  /\ result.kind = "ADEPTError" => (log # << >> /\ ~log[Len(log)].ok)
  /\ result.kind = "key" => (Len(log) = 13 /\ \A k \in DOMAIN log : log[k].ok)
  /\ opens # << >> => RootOpened
  /\ (pc = "done") = (result.kind # "none")

\* The call ended at the secret unwrap, which failed.
C9_Witness ==
  /\ pc = "done"
  /\ log # << >>
  /\ log[Len(log)] = Step("CryptUnprotectData", FALSE)
  /\ result = ErrUnwrap

----------------------------------------------------------------------------
(* C5.  As claimed: a probe call acquires a buffer of its own and releases *)
(* it when it returns, so that once a probe call has been made no buffer   *)
(* is allocated between calls and no buffer is run by two probe calls.     *)
C5_FreshBufferPerProbeCall ==
  /\ probe.invoked # << >> => probe.heap = {}
  /\ \A k, m \in DOMAIN probe.invoked :
       probe.invoked[k].buf = probe.invoked[m].buf => k = m

(* C5, amended: each of the two probes has one executable buffer, acquired *)
(* and written once when the module is imported; every probe call of every *)
(* retrieve_key call runs the buffer of its probe and neither acquires nor *)
(* releases one, so both buffers stay allocated between probe calls and    *)
(* are shared by all calls; a buffer is released at most once, and only by *)
(* __del__ when its NativeFunction object is destroyed.                    *)
C5_BuffersLiveWithTheirObjects ==
  /\ probe.nalloc <= 2
  /\ probe.nfree <= probe.nalloc
  /\ probe.nalloc = Cardinality(probe.heap) + probe.nfree
  /\ probe.module = "loaded" =>
       /\ probe.heap = {probe.buf[p] : p \in Probes}
       /\ Cardinality(probe.heap) = 2
       /\ probe.nalloc = 2
       /\ probe.nfree = 0
       /\ \A k \in DOMAIN probe.invoked :
            probe.invoked[k].buf = probe.buf[probe.invoked[k].probe]
  /\ \A k, m \in DOMAIN probe.invoked :
       /\ probe.invoked[k].buf # Null
       /\ probe.invoked[k].probe = probe.invoked[m].probe
            => probe.invoked[k].buf = probe.invoked[m].buf
       /\ probe.invoked[k].probe # probe.invoked[m].probe
            => probe.invoked[k].buf # probe.invoked[m].buf
  /\ probe.nfree > 0 => probe.module \in {"exiting", "failed"}
  /\ probe.invoked # << >> => probe.nalloc = 2

\* Two retrieve_key calls have run both probes, on the same two buffers,
\* which are still allocated.
C5_Witness ==
  /\ probe.module = "loaded"
  /\ probe.calls = 2
  /\ Len(probe.invoked) = 4
  /\ probe.invoked[1].buf = probe.invoked[3].buf
  /\ Cardinality(probe.heap) = 2

----------------------------------------------------------------------------
(* D without its first 26 bytes and without its last N bytes: nothing when *)
(* no more than 26 + N bytes are there.                                    *)
DropEnds(D, N) ==
  [k \in 1 .. (IF Len(D) - 26 - N > 0 THEN Len(D) - 26 - N ELSE 0) |-> D[26 + k]]

(* C3.  For every decrypted buffer D and every value N of its last byte,   *)
(* the key returned is D without its first 26 bytes and without its last N *)
(* bytes; a last byte of 1 gives one byte less than D[26:], and a last     *)
(* byte of 16 removes the last block.                                      *)
C3_HeaderAndPadRemoved ==
  depad.pc = "returned" =>
    LET D == depad.D
        N == D[Len(D)]
    IN /\ depad.out = DropEnds(D, N)
       /\ (N = 1 /\ Len(D) > 26) => Len(depad.out) = Len(D) - 26 - 1
       /\ (N = 16 /\ Len(D) >= 48) =>
            depad.out = [k \in 1 .. (Len(D) - 42) |-> D[26 + k]]

\* The same for a pad byte of 1 or more: what the code does for every buffer
\* whose last byte is not zero.
C3_HoldsForPositivePad ==
  (depad.pc = "returned" /\ depad.D[Len(depad.D)] >= 1) =>
    depad.out = DropEnds(depad.D, depad.D[Len(depad.D)])

\* A buffer whose last byte is zero is stripped to nothing.
C3_ZeroPadGivesNothing ==
  (depad.pc = "returned" /\ depad.D[Len(depad.D)] = 0) => depad.out = << >>

----------------------------------------------------------------------------
(* The number the bytes e[from .. from + n - 1] spell, most significant    *)
(* byte first, and the parts of the buffer the claim and the code agree on.*)
BigEndian(e, from, n) ==
  LET RECURSIVE val(_)
      val(k) == IF k = 0 THEN 0 ELSE val(k - 1) * 256 + e[from + k - 1]
  IN val(n)

EntropyFrame(e) ==
  /\ Len(e) = 32
  /\ \A k \in 1 .. 32 : e[k] \in 0 .. 255
  /\ BigEndian(e, 1, 2) = ent.serial[1]
  /\ BigEndian(e, 3, 2) = ent.serial[2]
  /\ \A k \in 1 .. 12 : e[4 + k] = ent.vendor[k]
  /\ \A k \in 1 .. 13 :
       e[19 + k] = IF k <= Len(ent.name) THEN ent.name[k] % 256 ELSE 0

(* C10, as claimed: the entropy buffer is 32 bytes: the serial in four     *)
(* bytes, most significant first, the 12 vendor bytes, the three most      *)
(* significant bytes of the four-byte feature value, and the user name,    *)
(* one byte for each character, cut or zero-filled to 13 bytes.            *)
C10_SignatureIsTopThreeBytes ==
  ent.pc = "packed" =>
    /\ EntropyFrame(ent.entropy)
    /\ BigEndian(ent.entropy, 17, 3) =
         ent.feature[1] * 256 + ent.feature[2] \div 256

(* C10, amended: the same, but the three signature bytes are the three     *)
(* least significant bytes of the four-byte feature value (its big-endian  *)
(* packing without the first, most significant byte), and the byte of a    *)
(* character is the low byte of its UTF-16 code unit.                      *)
C10_SignatureIsLowThreeBytes ==
  ent.pc = "packed" =>
    /\ EntropyFrame(ent.entropy)
    /\ BigEndian(ent.entropy, 17, 3) =
         (ent.feature[1] % 256) * 65536 + ent.feature[2]

\* A buffer packed from a name longer than 13 characters, fetched with a
\* grown buffer, and a feature value whose first byte is not zero.
C10_Witness ==
  /\ ent.pc = "packed"
  /\ Len(ent.name) > 13
  /\ ent.buffer > 32
  /\ ent.feature[1] >= 256
  /\ Len(ent.entropy) = 32

----------------------------------------------------------------------------
(* The document was found and parsed; its first matching element.         *)
MacParsed == mac.actpath # 0 /\ mac.wellformed

FirstMatch == CHOOSE e \in Matches(mac.shape) : \A f \in Matches(mac.shape) : e <= f

\* The bytes stored in the first matching element, from the 27th on.
StoredBody ==
  IF mac.shape[FirstMatch].key = "text" /\ mac.size > 26
  THEN [k \in 1 .. (mac.size - 26) |-> Payload(mac.actpath, FirstMatch, mac.size)[26 + k]]
  ELSE << >>

(* C4.  When the activation document is found and parses, retrieve_key     *)
(* raises ADEPTError if the document has no credentials/privateLicenseKey  *)
(* element, and otherwise returns the bytes the element's text encodes     *)
(* without the first 26 and with nothing removed at the end.               *)
C4_MissingElementIsADEPTError ==
  (mac.pc = "done" /\ MacParsed) =>
    IF Matches(mac.shape) = {}
    THEN mac.result.kind = "ADEPTError"
    ELSE mac.result = [kind |-> "key", key |-> StoredBody]

\* The half of C4 that holds: a document with the element yields the stored
\* bytes from the 27th on, all of them.
C4_PresentElementIsDecoded ==
  (mac.pc = "done" /\ MacParsed /\ Matches(mac.shape) # {}) =>
    mac.result = [kind |-> "key", key |-> StoredBody]

\* What the code does on a document without the element.
C4_MissingElementIsAttributeError ==
  (mac.pc = "done" /\ MacParsed /\ Matches(mac.shape) = {}) =>
    mac.result.kind = "AttributeError"

====
